---------------------------- MODULE Spec2Model ----------------------------
(***************************************************************************)
(* CV distribution pipeline of services/cvDistributionService.js           *)
(* (src/unnamed/part_008): eligibility resolution, the in-process          *)
(* distribution queue, the drain loop, batched dispatch and the per-agency *)
(* daily counters; the submit handler of routes/candidates.js            *)
(* (src/unnamed/part_002) that calls it; and the monitor of                *)
(* middleware/distributionMonitoring.js.                                   *)
(*                                                                         *)
(* Execution model: one Node.js event loop.  Every action below is one     *)
(* run-to-completion turn: the code from the resumption of an await (or    *)
(* the call of distributeCVToAgencies) up to the next await that waits for *)
(* I/O or for a timer.  Calls made without await (line 49, line 210,       *)
(* line 251) run their synchronous prefix inside the caller's turn.        *)
(*                                                                         *)
(* The pipeline counts time in whole days (oneDay = 24*60*60*1000 ms = 1   *)
(* unit); the monitor, whose window is one hour, has its clock counted in  *)
(* half hours.                                                             *)
(***************************************************************************)
EXTENDS Integers, Sequences, FiniteSets, TLC

(***************************************************************************)
(* Bounds of the model.                                                    *)
(***************************************************************************)
NumCalls == 3
NumAgencies == 3
MaxWork == 6
\* the monitor: entries ever logged, and the last tick of its clock
MaxLogs == 5
MaxMonNow == 3
\* the recruitment addresses of one agency
MaxEmails == 2

(***************************************************************************)
(* Program constants, scaled: the default daily cap is 50 in the code      *)
(* (line 146) and a day is 24*60*60*1000 ms (line 108).  The batch size,   *)
(* 100 in the code (line 11), is a field of the service; the model runs    *)
(* the service with a batch size of 1 (every job of two agencies spans     *)
(* several batches) and of 2 (agencies share a batch).                     *)
(***************************************************************************)
defaultMaxCVsPerDay == 2
oneDay == 1
BatchSizes == {1, 2}

(***************************************************************************)
(* Constants of the monitor (distributionMonitoring.js), scaled: the map   *)
(* keeps 1000 entries and trims the oldest 100 (lines 35-36); the window   *)
(* is 3600000 ms (line 58); the thresholds are a failure rate of 0.1, a    *)
(* success rate of 0.9 and 30000 ms (lines 8-11).  Rates are percentages:  *)
(* with windows of at most four entries the thresholds are 25% and 75%,    *)
(* which, as 10% and 90% do, add up to 100%.                               *)
(***************************************************************************)
capacity == 4
trimCount == 2
oneHour == 2
maxFailureRate == 25
minSuccessRate == 75
maxProcessingTime == 2
\* processing times logged: none, at the threshold, above it
ProcessingTimes == {0, maxProcessingTime, 2 * maxProcessingTime + 1}

Calls == 1..NumCalls
\* a run of the submit handler makes two calls (part_002 lines 339 and 357)
Submissions == 1..(NumCalls \div 2)
Agencies == 1..NumAgencies
Addresses == 1..MaxEmails
Regions == {"north", "center", "lowlands", "south"}

VARIABLES
    maxBatchSize,       \* this.maxBatchSize (line 11)
    now,                \* wall clock (Date.now()), in days
    company,            \* Company collection: distributionSettings per agency
    company0,           \* history: the Company collection of the initial state
    subscription,       \* Subscription collection: one document per agency
    recruitmentEmails,  \* Company collection: the recruitmentEmails of each agency
    candidate,          \* the candidate argument of each call
    callPc,             \* position of each distributeCVToAgencies call
    callNow,            \* `now` captured by getEligibleAgencies (line 107)
    agencies,           \* result of Company.find(...).lean() (line 113)
    distributed,        \* value returned by the call ({distributed: n}), -1 before
    isProcessing,       \* this.isProcessing
    distributionQueue,  \* this.distributionQueue: job ids, front first
    task,               \* the task object of each job: its agencies list
    drainPc,            \* position of each processDistributionQueue invocation
    drainTask,          \* `task` local of the drain loop (0: none)
    psdPc,              \* position of processSingleDistribution per job
    nextI,              \* loop variable i of processSingleDistribution per job
    send,               \* state of each sendCVToAgency promise per job position
    delivery,           \* state of each sendCVDistributionEmail call, per address
    batchPc,            \* position of each processBatch call per job
    batchResult,        \* {success, errors} returned by each processBatch
    jobResult,          \* successCount / errorCount logged at line 236
    upd,                \* position of each updateDailyCount call
    updNow,             \* `now` captured by updateDailyCount (line 321)
    enqueued,           \* history: job ids in the order of push (line 45)
    started,            \* history: job ids in the order of shift (line 186)
    submitPc,           \* position of each run of the submit handler
    submitCall,         \* the calls of distributeCVToAgencies each run has made
    response,           \* HTTP status the handler answered with (0: none yet)
    healthChecks,       \* monitor: this.healthChecks, entries in insertion order
    logged,             \* monitor: number of entries ever inserted
    monNow,             \* monitor: wall clock (Date.now()), in half hours
    health,             \* monitor: the value getHealthStatus returned last
    regionArg,          \* the argument of a call of extractRegionFromCandidate
    candidateRegion     \* the value that call returned ("": not called)

submitVars == <<submitPc, submitCall, response>>
monVars == <<healthChecks, logged, monNow, health>>
regionVars == <<regionArg, candidateRegion>>

vars == <<maxBatchSize, now, company, company0, subscription, recruitmentEmails,
          candidate, callPc, callNow, agencies, distributed,
          isProcessing, distributionQueue, task, drainPc, drainTask, psdPc,
          nextI, send, delivery, batchPc, batchResult, jobResult, upd, updNow,
          enqueued, started, submitVars, monVars, regionVars>>

dbVars == <<maxBatchSize, company, company0, subscription, recruitmentEmails>>
callVars == <<candidate, callPc, callNow, agencies, distributed>>
queueVars == <<isProcessing, distributionQueue, task, drainPc, drainTask,
               enqueued, started>>
jobVars == <<psdPc, nextI, send, delivery, batchPc, batchResult, jobResult>>
updVars == <<upd, updNow>>
pipeVars == <<now, dbVars, callVars, queueVars, jobVars, updVars>>

\* health before getHealthStatus was ever called
NoHealth == [status |-> "none"]

(***************************************************************************)
(* Helpers.                                                                *)
(***************************************************************************)
Min(a, b) == IF a < b THEN a ELSE b

Range(s) == {s[i] : i \in 1..Len(s)}

RECURSIVE SetToSeq(_)
\* the elements of a set of agency ids in natural (storage) order
SetToSeq(S) ==
    IF S = {} THEN <<>>
    ELSE LET m == CHOOSE x \in S : \A y \in S : x <= y
         IN <<m>> \o SetToSeq(S \ {m})

\* number of batches a list of n agencies is cut into (loop at line 207)
NumBatches(n) == (n + maxBatchSize - 1) \div maxBatchSize
MaxBatches == NumAgencies
Batches == 1..MaxBatches
Positions == 1..NumAgencies

\* agencies.slice(i, i + maxBatchSize) for the b-th batch, as 1-based positions
BatchPositions(n, b) ==
    { k \in 1..n : (b - 1) * maxBatchSize < k /\ k <= b * maxBatchSize }

(***************************************************************************)
(* Documents.                                                              *)
(***************************************************************************)
\* fields of a Company document that the query at lines 113-119 tests; no
\* agency of the store serves the south
AgencyDoc(a) ==
    [ isRecruitmentAgency |-> TRUE,
      isRecruitmentAccess |-> "approved",
      isActive            |-> TRUE,
      recruitmentEmails   |-> recruitmentEmails[a],
      supportRegions      |-> Regions \ {"south"} ]

(***************************************************************************)
(* Strings are sequences of characters, so that toLowerCase and includes   *)
(* are computed as the code computes them.                                 *)
(***************************************************************************)
UpperCase == <<"A", "B", "C", "D", "E", "F", "G", "H", "I", "J", "K", "L", "M",
               "N", "O", "P", "Q", "R", "S", "T", "U", "V", "W", "X", "Y", "Z">>
LowerCase == <<"a", "b", "c", "d", "e", "f", "g", "h", "i", "j", "k", "l", "m",
               "n", "o", "p", "q", "r", "s", "t", "u", "v", "w", "x", "y", "z">>

\* String.prototype.toLowerCase
toLowerCase(str) ==
    [i \in 1..Len(str) |->
        IF \E u \in 1..Len(UpperCase) : UpperCase[u] = str[i]
        THEN LowerCase[CHOOSE u \in 1..Len(UpperCase) : UpperCase[u] = str[i]]
        ELSE str[i]]

\* String.prototype.includes
includes(str, part) ==
    \E i \in 0..(Len(str) - Len(part)) : SubSeq(str, i + 1, i + Len(part)) = part

\* line 64: the four region tokens, with the region each one names
RegionTokens ==
    << [token |-> <<"n", "o", "r", "t", "h">>, region |-> "north"],
       [token |-> <<"c", "e", "n", "t", "e", "r">>, region |-> "center"],
       [token |-> <<"l", "o", "w", "l", "a", "n", "d", "s">>, region |-> "lowlands"],
       [token |-> <<"s", "o", "u", "t", "h">>, region |-> "south"] >>

\* lines 71-93: the lookup table, in the order of its entries.  Of the 37
\* cities the model keeps two of the north and one of every other section,
\* written in Latin letters: Haifa and Acre (lines 73-74), Tel Aviv
\* (line 78), Ashdod (line 84), Arad (line 89) and Jerusalem (line 92).
regionMap ==
    << [city |-> <<"h", "a", "i", "f", "a">>, region |-> "north"],
       [city |-> <<"a", "c", "r", "e">>, region |-> "north"],
       [city |-> <<"t", "e", "l", " ", "a", "v", "i", "v">>, region |-> "center"],
       [city |-> <<"a", "s", "h", "d", "o", "d">>, region |-> "lowlands"],
       [city |-> <<"a", "r", "a", "d">>, region |-> "south"],
       [city |-> <<"j", "e", "r", "u", "s", "a", "l", "e", "m">>, region |-> "center"] >>

\* a candidate document with positions, as call c passes it; positions is
\* the length of its positions array
CandidateDoc(c) ==
    [ id |-> c, positions |-> 1, location |-> RegionTokens[2].token,
      address |-> <<>>, city |-> <<>> ]

\* a null / undefined candidate argument
NullCandidate ==
    [ id |-> 0, positions |-> 0, location |-> <<>>, address |-> <<>>, city |-> <<>> ]

\* the arguments call c may be made with: a candidate of a served region, of
\* a region no agency serves, one without positions, and null
Candidates(c) ==
    { CandidateDoc(c),
      [CandidateDoc(c) EXCEPT !.location = RegionTokens[4].token],
      [CandidateDoc(c) EXCEPT !.positions = 0],
      NullCandidate }

\* mutant of InvalidCandidate: only the null test of line 18
InvalidCandidateNullOnly(cand) == cand = NullCandidate

\* lines 18-20: !candidate || !candidate.positions || positions.length === 0
InvalidCandidate(cand) == cand = NullCandidate \/ cand.positions = 0

\* line 64: the region named by a lower-cased location, "" when it is not
\* one of the four tokens
TokenRegion(str) ==
    IF \E i \in 1..Len(RegionTokens) : RegionTokens[i].token = str
    THEN RegionTokens[CHOOSE i \in 1..Len(RegionTokens) : RegionTokens[i].token = str].region
    ELSE ""

\* mutant of addressOrCity: the city comes first
cityOrAddress(cand) == IF cand.city # <<>> THEN cand.city ELSE cand.address

\* line 69: candidate.address || candidate.city || ''
addressOrCity(cand) == IF cand.address # <<>> THEN cand.address ELSE cand.city

RECURSIVE LookupFrom(_, _)
\* lines 95-101: the loop over the entries of the table from entry i on,
\* and the default
LookupFrom(location, i) ==
    IF i > Len(regionMap) THEN "center"
    ELSE IF includes(location, regionMap[i].city) THEN regionMap[i].region
    ELSE LookupFrom(location, i + 1)

\* lines 61-102
extractRegionFromCandidate(cand) ==
    IF cand.location # <<>> /\ TokenRegion(toLowerCase(cand.location)) # ""
    THEN TokenRegion(toLowerCase(cand.location))
    ELSE LookupFrom(toLowerCase(addressOrCity(cand)), 1)

(***************************************************************************)
(* getEligibleAgencies (lines 105-173).                                    *)
(***************************************************************************)
\* the filter of Company.find at lines 113-119
MatchesRegionQuery(a, region) ==
    /\ AgencyDoc(a).isRecruitmentAgency
    /\ AgencyDoc(a).isRecruitmentAccess = "approved"
    /\ AgencyDoc(a).isActive
    /\ Len(AgencyDoc(a).recruitmentEmails) > 0
    /\ region \in AgencyDoc(a).supportRegions

\* a lean document: the stored settings at the time the query runs
LeanDoc(a) ==
    [ id |-> a,
      enabled        |-> company[a].enabled,
      maxCVsPerDay   |-> company[a].maxCVsPerDay,
      dailyCount     |-> company[a].dailyCount,
      lastCountReset |-> company[a].lastCountReset ]

CompanyFind(region) ==
    LET ids == SetToSeq({a \in Agencies : MatchesRegionQuery(a, region)})
    IN  [i \in 1..Len(ids) |-> LeanDoc(ids[i])]

\* Subscription.find at lines 125-129, for the `now` of line 107
activeCompanyIds(docs, t) ==
    { d.id : d \in { x \in Range(docs) :
                       /\ subscription[x.id].status = "active"
                       /\ subscription[x.id].expirationDate > t } }

\* line 146: settings.maxCVsPerDay || 50
maxDaily(doc) ==
    IF doc.maxCVsPerDay = 0 THEN defaultMaxCVsPerDay ELSE doc.maxCVsPerDay

\* mutant of currentDailyCount: lines 152-154 left out
currentDailyCountStored(doc, t) == doc.dailyCount

\* lines 147-154: the stored count, or 0 when the last reset is over a day old
currentDailyCount(doc, t) ==
    IF doc.lastCountReset < t - oneDay THEN 0 ELSE doc.dailyCount

\* mutant of Kept: an agency that turned distribution off is skipped
KeptIfEnabled(d, active, t) ==
    d.enabled /\ d.id \in active /\ currentDailyCount(d, t) < maxDaily(d)

\* lines 140-164: the tests of the loop on one agency
Kept(d, active, t) ==
    d.id \in active /\ currentDailyCount(d, t) < maxDaily(d)

\* lines 138-165: the agencies kept by the loop, in query order
eligibleAgencies(docs, t) ==
    LET active == activeCompanyIds(docs, t)
        Keep(d) == Kept(d, active, t)
        kept == SelectSeq(docs, Keep)
    IN  [i \in 1..Len(kept) |-> kept[i].id]

(***************************************************************************)
(* updateDailyCount (lines 319-345): two storage updates, one after the    *)
(* other, each atomic in the store.                                        *)
(***************************************************************************)
\* lines 324-335: findOneAndUpdate({_id, lastCountReset < oneDayAgo}, $set)
ResetIfStale(doc, t) ==
    IF doc.lastCountReset < t - oneDay
    THEN [doc EXCEPT !.dailyCount = 1, !.lastCountReset = t]
    ELSE doc

\* lines 338-340: findByIdAndUpdate(companyId, {$inc: {dailyCount: 1}})
Increment(doc) == [doc EXCEPT !.dailyCount = doc.dailyCount + 1]

(***************************************************************************)
(* sendCVToAgency (lines 262-290).                                         *)
(***************************************************************************)
\* lines 265-267: the active addresses of the agency
activeEmails(a) ==
    SelectSeq(AgencyDoc(a).recruitmentEmails, LAMBDA e : e.isActive)

\* mutant of SendIssued: lines 269-271 left out, Promise.all of no call is
\* fulfilled
SendIssuedUnchecked(a) ==
    IF Len(activeEmails(a)) = 0 THEN "fulfilled" ELSE "pending"

\* the state of the promise when sendCVToAgency returns it: rejected at once
\* when there is no active address (lines 269-271), pending on the delivery
\* calls otherwise (line 281)
SendIssued(a) ==
    IF Len(activeEmails(a)) = 0 THEN "rejected" ELSE "pending"

\* lines 277-279: one sendCVDistributionEmail call per active address; the
\* calls are listed by the position of their address in recruitmentEmails
\* ("none": no call for that address)
DeliveryCalls(a) ==
    [i \in 1..Len(AgencyDoc(a).recruitmentEmails) |->
        IF AgencyDoc(a).recruitmentEmails[i].isActive THEN "pending" ELSE "none"]

\* mutant of PromiseAll: Promise.allSettled, fulfilled once every call has
\* settled
PromiseAllSettled(calls) ==
    IF \E i \in 1..Len(calls) : calls[i] = "pending" THEN "pending" ELSE "fulfilled"

\* line 281: await Promise.all(emailPromises), rethrown at line 288: rejected
\* as soon as one call is, fulfilled when every call is
PromiseAll(calls) ==
    IF \E i \in 1..Len(calls) : calls[i] = "rejected" THEN "rejected"
    ELSE IF \E i \in 1..Len(calls) : calls[i] = "pending" THEN "pending"
    ELSE "fulfilled"

Settled(st) == st \in {"fulfilled", "rejected"}

(***************************************************************************)
(* Initial state: the service as constructed (lines 8-13), a store with    *)
(* one Company and one Subscription document per agency.                   *)
(***************************************************************************)
InitNow == oneDay + 1

\* the recruitmentEmails of an agency with one address, active (part_004
\* lines 79-83: isActive defaults to true)
OneActiveEmail == << [isActive |-> TRUE] >>

\* the counters of an agency at the start: one send below the cap or at the
\* cap, last reset exactly one day ago (not yet stale: line 152 is strict; it
\* turns stale when the clock advances).  An agency whose subscription has
\* run out is never resolved; its counters are left at the schema defaults
\* (part_004 lines 84-89).
InitCompanyDocs(sub) ==
    IF sub.expirationDate > InitNow
    THEN { [enabled |-> TRUE, maxCVsPerDay |-> 0, dailyCount |-> n,
            lastCountReset |-> InitNow - oneDay] :
             n \in {defaultMaxCVsPerDay - 1, defaultMaxCVsPerDay} }
    ELSE { [enabled |-> TRUE, maxCVsPerDay |-> 0, dailyCount |-> 0,
            lastCountReset |-> InitNow - oneDay] }

InitSubscriptions ==
    { [status |-> "active", expirationDate |-> e] :
        e \in {InitNow, InitNow + oneDay + 1} }

\* the store and the configuration of the service
StoreInit ==
    /\ maxBatchSize \in BatchSizes
    /\ now = InitNow
    /\ subscription \in [Agencies -> InitSubscriptions]
    /\ company \in [Agencies -> UNION {InitCompanyDocs(s) : s \in InitSubscriptions}]
    /\ \A a \in Agencies : company[a] \in InitCompanyDocs(subscription[a])
    \* storage order: the agencies with a running subscription come first
    /\ \A a, b \in Agencies :
          (a < b /\ subscription[b].expirationDate > InitNow)
              => subscription[a].expirationDate > InitNow
    /\ company0 = company
    /\ recruitmentEmails = [a \in Agencies |-> OneActiveEmail]
    \* with at most one agency to resolve every job is one batch of one send,
    \* whatever the batch size: one batch size stands for all
    /\ Cardinality({a \in Agencies : subscription[a].expirationDate > InitNow}) <= 1
          => maxBatchSize = 1

\* the service as constructed (lines 8-13), no call made yet
ServiceInit ==
    /\ candidate = [c \in Calls |-> NullCandidate]
    /\ callPc = [c \in Calls |-> "idle"]
    /\ callNow = [c \in Calls |-> 0]
    /\ agencies = [c \in Calls |-> <<>>]
    /\ distributed = [c \in Calls |-> -1]
    /\ isProcessing = FALSE
    /\ distributionQueue = <<>>
    /\ task = [c \in Calls |-> <<>>]
    /\ drainPc = [c \in Calls |-> "none"]
    /\ drainTask = [c \in Calls |-> 0]
    /\ psdPc = [c \in Calls |-> "none"]
    /\ nextI = [c \in Calls |-> 0]
    /\ send = [c \in Calls |-> [k \in Positions |-> "none"]]
    /\ delivery = [c \in Calls |-> [k \in Positions |-> <<>>]]
    /\ batchPc = [c \in Calls |-> [b \in Batches |-> "none"]]
    /\ batchResult = [c \in Calls |-> [b \in Batches |-> [success |-> 0, errors |-> 0]]]
    /\ jobResult = [c \in Calls |-> [success |-> 0, errors |-> 0]]
    /\ upd = [c \in Calls |-> [k \in Positions |-> "none"]]
    /\ updNow = [c \in Calls |-> [k \in Positions |-> 0]]
    /\ enqueued = <<>>
    /\ started = <<>>

\* no request in the submit handler
SubmitInit ==
    /\ submitPc = [s \in Submissions |-> "idle"]
    /\ submitCall = [s \in Submissions |-> <<>>]
    /\ response = [s \in Submissions |-> 0]

\* the monitor as constructed (distributionMonitoring.js lines 5-16)
MonitorInit ==
    /\ healthChecks = <<>>
    /\ logged = 0
    /\ monNow = 0
    /\ health = NoHealth

\* extractRegionFromCandidate not called on its own
NoRegionCall ==
    /\ regionArg = NullCandidate
    /\ candidateRegion = ""

Init == StoreInit /\ ServiceInit /\ SubmitInit /\ MonitorInit /\ NoRegionCall

(***************************************************************************)
(* distributeCVToAgencies, up to the first await (lines 16-28, 105-119).   *)
(***************************************************************************)
\* the agencies that may be resolved at all: the load one call can create
Subscribed == { a \in Agencies : subscription[a].expirationDate > InitNow }

\* bound on the load offered to the service: every call costs its queries
\* and one send per agency it may resolve
WithinWork(c) ==
    (Cardinality({x \in Calls : callPc[x] # "idle"}) + 1) * (Cardinality(Subscribed) + 1)
        <= MaxWork

\* distributeCVToAgencies(cand) as call c, up to its first await: it throws
\* on an invalid candidate (lines 18-20, rethrown at line 56), and issues
\* Company.find otherwise (line 113).  Call ids name the invocations in the
\* order they are made.
Distribute(c, cand) ==
    /\ callPc[c] = "idle"
    /\ \A x \in Calls : x < c => callPc[x] # "idle"
    /\ WithinWork(c)
    /\ candidate' = [candidate EXCEPT ![c] = cand]
    /\ IF InvalidCandidate(cand)
       THEN /\ callPc' = [callPc EXCEPT ![c] = "rejected"]
            /\ UNCHANGED callNow
       ELSE /\ callPc' = [callPc EXCEPT ![c] = "companyFind"]
            /\ callNow' = [callNow EXCEPT ![c] = now]
    /\ UNCHANGED <<now, dbVars, agencies, distributed, queueVars, jobVars, updVars>>

\* a call made by any caller of the service
Call(c) ==
    /\ \E cand \in Candidates(c) : Distribute(c, cand)
    /\ UNCHANGED <<submitVars, monVars, regionVars>>

\* Company.find resolves (line 113); Subscription.find is issued (line 125)
CompanyFindReturn(c) ==
    /\ callPc[c] = "companyFind"
    /\ agencies' = [agencies EXCEPT
                      ![c] = CompanyFind(extractRegionFromCandidate(candidate[c]))]
    /\ callPc' = [callPc EXCEPT ![c] = "subscriptionFind"]
    /\ UNCHANGED <<now, dbVars, candidate, callNow, distributed, queueVars, jobVars,
                   updVars, submitVars, monVars, regionVars>>

\* Company.find (line 113) or Subscription.find (line 125) fails: the error
\* is logged and rethrown (lines 169-172, 54-57), the call rejects
QueryThrow(c) ==
    /\ callPc[c] \in {"companyFind", "subscriptionFind"}
    /\ callPc' = [callPc EXCEPT ![c] = "rejected"]
    /\ agencies' = [agencies EXCEPT ![c] = <<>>]
    /\ callNow' = [callNow EXCEPT ![c] = 0]
    /\ UNCHANGED <<now, dbVars, candidate, distributed, queueVars, jobVars, updVars,
                   submitVars, monVars, regionVars>>

(***************************************************************************)
(* processBatch, synchronous prefix (lines 240-242): the sends of one      *)
(* batch are issued together.                                              *)
(***************************************************************************)
\* the sends of job j after processBatch was called on batch b of list ags
SendsAfterBatch(sj, ags, b) ==
    [k \in Positions |->
        IF k \in BatchPositions(Len(ags), b) THEN SendIssued(ags[k]) ELSE sj[k]]

\* the delivery calls of job j after processBatch was called on batch b
DeliveriesAfterBatch(dj, ags, b) ==
    [k \in Positions |->
        IF k \in BatchPositions(Len(ags), b) /\ Len(activeEmails(ags[k])) > 0
        THEN DeliveryCalls(ags[k]) ELSE dj[k]]

\* mutant of MoreBatches: the loop stops one agency early
MoreBatchesShort(i, n) == i + maxBatchSize + 1 < n

\* line 207 (and line 214): is there another batch after the one at index i
MoreBatches(i, n) == i + maxBatchSize < n

\* batch number (1-based) of the batch sliced at index i (line 208)
BatchAt(i) == (i \div maxBatchSize) + 1

(***************************************************************************)
(* processDistributionQueue: one turn of the loop (lines 185-187) running  *)
(* into processSingleDistribution (lines 202-216) and processBatch.        *)
(* q is the queue and tk the task table at the time of the shift.          *)
(***************************************************************************)
\* mutant of Shift: pop() takes the newest task instead of the oldest
ShiftNewest(q) == [task |-> q[Len(q)], rest |-> SubSeq(q, 1, Len(q) - 1)]

\* line 186: this.distributionQueue.shift()
Shift(q) == [task |-> Head(q), rest |-> Tail(q)]

StartTask(d, q, tk) ==
    LET j == Shift(q).task
        ags == tk[j]
    IN  /\ distributionQueue' = Shift(q).rest
        /\ started' = Append(started, j)
        /\ drainTask' = [drainTask EXCEPT ![d] = j]
        /\ drainPc' = [drainPc EXCEPT ![d] = "task"]
        /\ nextI' = [nextI EXCEPT ![j] = 0]
        /\ send' = [send EXCEPT ![j] = SendsAfterBatch(send[j], ags, BatchAt(0))]
        /\ delivery' = [delivery EXCEPT
                          ![j] = DeliveriesAfterBatch(delivery[j], ags, BatchAt(0))]
        /\ batchPc' = [batchPc EXCEPT ![j][BatchAt(0)] = "allSettled"]
        /\ psdPc' = [psdPc EXCEPT
                       ![j] = IF MoreBatches(0, Len(ags)) THEN "delay" ELSE "allSettled"]

\* line 48 and line 177: does this call start a drain loop
StartsDrain(flag, q) == ~flag /\ ~(flag \/ Len(q) = 0)

\* mutant of FlagWhileDraining: line 181 left out
FlagNeverSet == FALSE

\* line 181: the flag while a drain loop runs
FlagWhileDraining == TRUE

(***************************************************************************)
(* distributeCVToAgencies after Subscription.find resolves (lines 133-167, *)
(* 30-52), with the drain loop it may start (line 49).                     *)
(***************************************************************************)
\* mutant of Distributed: the count of the sends issued so far (first batch)
DistributedFirstBatch(el) == Min(Len(el), maxBatchSize)

\* line 52 / line 32: the count reported to the caller
Distributed(el) == Len(el)

\* mutant of NothingToDistribute: lines 30-33 left out
NothingToDistributeNever(el) == FALSE

\* line 30: eligibleAgencies.length === 0
NothingToDistribute(el) == Len(el) = 0

SubscriptionFindReturn(c) ==
    /\ callPc[c] = "subscriptionFind"
    /\ LET el == eligibleAgencies(agencies[c], callNow[c])
           q == Append(distributionQueue, c)
           tk == [task EXCEPT ![c] = el]
       IN  /\ agencies' = [agencies EXCEPT ![c] = <<>>]
           /\ callPc' = [callPc EXCEPT ![c] = "returned"]
           /\ distributed' = [distributed EXCEPT ![c] = Distributed(el)]
           /\ IF NothingToDistribute(el)
              THEN UNCHANGED <<queueVars, jobVars>>
              ELSE /\ task' = tk
                   /\ enqueued' = Append(enqueued, c)
                   /\ IF StartsDrain(isProcessing, q)
                      THEN /\ isProcessing' = FlagWhileDraining
                           /\ StartTask(c, q, tk)
                           /\ UNCHANGED <<batchResult, jobResult>>
                      ELSE /\ distributionQueue' = q
                           /\ UNCHANGED <<isProcessing, drainPc, drainTask,
                                          started, jobVars>>
    /\ callNow' = [callNow EXCEPT ![c] = 0]
    /\ UNCHANGED <<now, dbVars, candidate, updVars, submitVars, monVars, regionVars>>

(***************************************************************************)
(* processSingleDistribution: the inter-batch delay of line 215 elapses    *)
(* and the loop issues the next batch (lines 207-216).                     *)
(***************************************************************************)
BatchDelayElapsed(j) ==
    /\ psdPc[j] = "delay"
    /\ LET ags == task[j]
           i == nextI[j] + maxBatchSize
       IN  /\ nextI' = [nextI EXCEPT ![j] = i]
           /\ send' = [send EXCEPT ![j] = SendsAfterBatch(send[j], ags, BatchAt(i))]
           /\ delivery' = [delivery EXCEPT
                             ![j] = DeliveriesAfterBatch(delivery[j], ags, BatchAt(i))]
           /\ batchPc' = [batchPc EXCEPT ![j][BatchAt(i)] = "allSettled"]
           /\ psdPc' = [psdPc EXCEPT
                          ![j] = IF MoreBatches(i, Len(ags)) THEN "delay" ELSE "allSettled"]
    /\ UNCHANGED <<now, dbVars, callVars, queueVars, batchResult, jobResult, updVars,
                   submitVars, monVars, regionVars>>

(***************************************************************************)
(* The delivery to one address of an agency settles (lines 277-289): the   *)
(* promise of sendCVToAgency follows Promise.all over the calls.           *)
(***************************************************************************)
SendSettle(j, k, i, outcome) ==
    /\ i <= Len(delivery[j][k])
    /\ delivery[j][k][i] = "pending"
    /\ delivery' = [delivery EXCEPT ![j][k][i] = outcome]
    /\ send' = [send EXCEPT ![j][k] = PromiseAll(delivery'[j][k])]
    /\ UNCHANGED <<now, dbVars, callVars, queueVars, psdPc, nextI, batchPc,
                   batchResult, jobResult, updVars, submitVars, monVars, regionVars>>

(***************************************************************************)
(* processBatch after Promise.allSettled (lines 242-258).                  *)
(***************************************************************************)
\* line 242: every send of the batch has settled
AllSendsSettled(sj, P) == \A k \in P : Settled(sj[k])

\* mutant of Fulfilled: Promise.all in place of Promise.allSettled, one
\* rejection fails the whole batch
FulfilledAllOrNothing(sj, P) ==
    IF \E k \in P : sj[k] = "rejected" THEN {} ELSE P

\* line 248: the results that count as a success
Fulfilled(sj, P) == { k \in P : sj[k] = "fulfilled" }

\* line 252: the results that count as an error
Rejected(sj, P) == { k \in P : sj[k] # "fulfilled" }

\* mutant of Counted: line 251 moved out of the `if`, every agency of the
\* batch has its daily count updated
CountedAll(sj, P) == P

\* lines 248-251: the agencies whose daily count is updated
Counted(sj, P) == Fulfilled(sj, P)

BatchSettled(j, b) ==
    /\ batchPc[j][b] = "allSettled"
    /\ LET P == BatchPositions(Len(task[j]), b)
           ok == Fulfilled(send[j], P)
       IN  /\ AllSendsSettled(send[j], P)
           /\ batchResult' = [batchResult EXCEPT
                  ![j][b] = [success |-> Cardinality(ok),
                             errors  |-> Cardinality(Rejected(send[j], P))]]
           \* line 251: updateDailyCount is called, not awaited; it runs up
           \* to its first await (lines 321-324)
           /\ upd' = [upd EXCEPT
                  ![j] = [k \in Positions |->
                             IF k \in Counted(send[j], P) THEN "reset" ELSE upd[j][k]]]
           /\ updNow' = [updNow EXCEPT
                  ![j] = [k \in Positions |->
                             IF k \in Counted(send[j], P) THEN now ELSE updNow[j][k]]]
    /\ batchPc' = [batchPc EXCEPT ![j][b] = "done"]
    /\ UNCHANGED <<now, dbVars, callVars, queueVars, psdPc, nextI, send, delivery,
                   jobResult, submitVars, monVars, regionVars>>

(***************************************************************************)
(* updateDailyCount: the two storage updates return (lines 324-340).       *)
(***************************************************************************)
UpdateReset(j, k) ==
    /\ upd[j][k] = "reset"
    /\ LET a == task[j][k]
       IN  company' = [company EXCEPT ![a] = ResetIfStale(company[a], updNow[j][k])]
    /\ upd' = [upd EXCEPT ![j][k] = "inc"]
    /\ UNCHANGED <<maxBatchSize, now, company0, subscription, recruitmentEmails,
                   callVars, queueVars,
                   jobVars, updNow, submitVars, monVars, regionVars>>

UpdateIncrement(j, k) ==
    /\ upd[j][k] = "inc"
    /\ LET a == task[j][k]
       IN  company' = [company EXCEPT ![a] = Increment(company[a])]
    /\ upd' = [upd EXCEPT ![j][k] = "done"]
    /\ updNow' = [updNow EXCEPT ![j][k] = 0]
    /\ UNCHANGED <<maxBatchSize, now, company0, subscription, recruitmentEmails,
                   callVars, queueVars,
                   jobVars, submitVars, monVars, regionVars>>

\* mutant of SendAfterUpdateThrow: the error of the update reaches the
\* result of the send
SendAfterUpdateThrowReverted(st) == "rejected"

\* lines 342-344: the error of the update is caught inside updateDailyCount,
\* whose promise processBatch dropped (line 251): the result of the send
\* stays what it was
SendAfterUpdateThrow(st) == st

\* one of the two storage updates throws: the error is caught and logged
\* (lines 342-344), updateDailyCount resolves
UpdateThrow(j, k) ==
    /\ upd[j][k] \in {"reset", "inc"}
    /\ upd' = [upd EXCEPT ![j][k] = "failed"]
    /\ updNow' = [updNow EXCEPT ![j][k] = 0]
    /\ send' = [send EXCEPT ![j][k] = SendAfterUpdateThrow(send[j][k])]
    /\ UNCHANGED <<now, dbVars, callVars, queueVars, psdPc, nextI, delivery, batchPc,
                   batchResult, jobResult, submitVars, monVars, regionVars>>

(***************************************************************************)
(* processSingleDistribution after Promise.allSettled(batchPromises)       *)
(* (lines 220-236), returning into the drain loop (lines 187-198).         *)
(***************************************************************************)
\* mutant of AllBatchesSettled: the batches are not awaited
BatchesNotAwaited(bj, n) == TRUE

\* line 220 / line 187: every processBatch promise of the job has settled
AllBatchesSettled(bj, n) == \A b \in 1..NumBatches(n) : bj[b] = "done"

RECURSIVE SumOver(_, _, _)
\* lines 226-234: the sum of one field over the batch results
SumOver(res, field, n) ==
    IF n = 0 THEN 0 ELSE res[n][field] + SumOver(res, field, n - 1)

\* mutant of AfterTask: `if` in place of `while` at line 185, the loop ends
\* after one task
AfterTaskStop(q) == "done"

\* lines 190 and 185: what the loop does once a task is finished
AfterTask(q) == IF Len(q) > 0 THEN "delay" ELSE "done"

JobSettled(d) ==
    /\ drainPc[d] = "task"
    /\ LET j == drainTask[d]
           nb == NumBatches(Len(task[j]))
       IN  /\ psdPc[j] = "allSettled"
           /\ AllBatchesSettled(batchPc[j], Len(task[j]))
           /\ psdPc' = [psdPc EXCEPT ![j] = "done"]
           /\ jobResult' = [jobResult EXCEPT
                  ![j] = [success |-> SumOver(batchResult[j], "success", nb),
                          errors  |-> SumOver(batchResult[j], "errors", nb)]]
    /\ drainPc' = [drainPc EXCEPT ![d] = AfterTask(distributionQueue)]
    \* line 197: the finally block, when the loop ends
    /\ isProcessing' = IF AfterTask(distributionQueue) = "done" THEN FALSE
                       ELSE isProcessing
    /\ UNCHANGED <<now, dbVars, callVars, distributionQueue, task, drainTask,
                   enqueued, started, nextI, send, delivery, batchPc, batchResult,
                   updVars,
                   submitVars, monVars, regionVars>>

(***************************************************************************)
(* The delay between tasks (line 191) elapses: the loop condition is       *)
(* evaluated again (line 185).                                             *)
(***************************************************************************)
TaskDelayElapsed(d) ==
    /\ drainPc[d] = "delay"
    /\ IF Len(distributionQueue) > 0
       THEN /\ StartTask(d, distributionQueue, task)
            /\ UNCHANGED <<isProcessing>>
       ELSE /\ drainPc' = [drainPc EXCEPT ![d] = "done"]
            /\ isProcessing' = FALSE
            /\ UNCHANGED <<distributionQueue, drainTask, started, psdPc, nextI,
                           send, delivery, batchPc>>
    /\ UNCHANGED <<now, dbVars, callVars, task, enqueued, batchResult, jobResult,
                   updVars, submitVars, monVars, regionVars>>

(***************************************************************************)
(* The clock advances.                                                     *)
(***************************************************************************)
Tick ==
    /\ now < InitNow + oneDay
    /\ now' = now + 1
    /\ UNCHANGED <<dbVars, callVars, queueVars, jobVars, updVars, submitVars, monVars, regionVars>>

\* any number of calls on a store that answers every quota update (a store
\* that fails them is the subject of ResolveSpec and DeliverSpec)
Next ==
    \/ \E c \in Calls : Call(c)
    \/ \E c \in Calls : CompanyFindReturn(c)
    \/ \E c \in Calls : QueryThrow(c)
    \/ \E c \in Calls : SubscriptionFindReturn(c)
    \/ \E j \in Calls : BatchDelayElapsed(j)
    \/ \E j \in Calls, k \in Positions, i \in Addresses, o \in {"fulfilled", "rejected"} :
          SendSettle(j, k, i, o)
    \/ \E j \in Calls, b \in Batches : BatchSettled(j, b)
    \/ \E j \in Calls, k \in Positions : UpdateReset(j, k)
    \/ \E j \in Calls, k \in Positions : UpdateIncrement(j, k)
    \/ \E d \in Calls : JobSettled(d)
    \/ \E d \in Calls : TaskDelayElapsed(d)
    \/ Tick

Spec == Init /\ [][Next]_vars

(***************************************************************************)
(* Scheduling: the event loop runs every continuation whose query,         *)
(* delivery, storage update or timer has completed; only new calls         *)
(* and the clock are left to the environment.                              *)
(***************************************************************************)
Progress ==
    \/ \E c \in Calls : CompanyFindReturn(c)
    \/ \E c \in Calls : QueryThrow(c)
    \/ \E c \in Calls : SubscriptionFindReturn(c)
    \/ \E j \in Calls : BatchDelayElapsed(j)
    \/ \E j \in Calls, k \in Positions, i \in Addresses, o \in {"fulfilled", "rejected"} :
          SendSettle(j, k, i, o)
    \/ \E j \in Calls, b \in Batches : BatchSettled(j, b)
    \/ \E j \in Calls, k \in Positions : UpdateReset(j, k)
    \/ \E j \in Calls, k \in Positions : UpdateIncrement(j, k)
    \/ \E d \in Calls : JobSettled(d)
    \/ \E d \in Calls : TaskDelayElapsed(d)

FairSpec == Spec /\ WF_vars(Progress)

(***************************************************************************)
(* The submit handler of routes/candidates.js (part_002 lines 226-410),    *)
(* from the save of the candidate (line 336) to the response.              *)
(***************************************************************************)
\* the candidate document saved by run s (line 336): validated, with
\* positions, of any region
SavedCandidates(c) ==
    { CandidateDoc(c), [CandidateDoc(c) EXCEPT !.location = RegionTokens[4].token] }

\* the id of the next call of distributeCVToAgencies
NextCall == CHOOSE c \in Calls : callPc[c] = "idle" /\ \A x \in Calls : x < c => callPc[x] # "idle"

\* a call of distributeCVToAgencies has settled
CallSettled(c) == callPc[c] \in {"returned", "rejected"}

\* mutant of AfterDistribute: the call is not wrapped in try/catch, its
\* rejection reaches the catch of line 386
AfterDistributeUncaught(outcome, stage) ==
    IF outcome = "rejected" THEN "failed" ELSE stage

\* lines 337-344 and 355-362: a rejection is caught and logged, the handler
\* goes on to its next stage
AfterDistribute(outcome, stage) == stage

\* lines 386-409: the status answered when the handler is left at `stage`
ResponseAt(stage, old) == IF stage \in {"failed", "spamFailed"} THEN 500 ELSE old

\* candidate.save() resolves (line 336); first call (line 339); requests are
\* numbered in the order in which their save resolves
SubmitSave(s) ==
    /\ submitPc[s] = "idle"
    /\ \A x \in Submissions : x < s => submitPc[x] # "idle"
    /\ \E c \in Calls : callPc[c] = "idle"
    /\ \E cand \in SavedCandidates(NextCall) : Distribute(NextCall, cand)
    /\ submitPc' = [submitPc EXCEPT ![s] = "first"]
    /\ submitCall' = [submitCall EXCEPT ![s] = <<NextCall>>]
    /\ UNCHANGED <<response, monVars, regionVars>>

\* the first call settles (lines 339-344); the confirmation email is sent
\* (line 348)
SubmitFirstDone(s) ==
    /\ submitPc[s] = "first"
    /\ CallSettled(submitCall[s][1])
    /\ LET stage == AfterDistribute(callPc[submitCall[s][1]], "confirm")
       IN  /\ submitPc' = [submitPc EXCEPT ![s] = stage]
           /\ response' = [response EXCEPT ![s] = ResponseAt(stage, response[s])]
    /\ UNCHANGED <<now, dbVars, callVars, queueVars, jobVars, updVars, submitCall,
                   monVars, regionVars>>

\* sendConfirmationEmail settles, either way (lines 347-352); second call
\* with the same candidate (line 357)
SubmitConfirmSettled(s) ==
    /\ submitPc[s] = "confirm"
    /\ \E c \in Calls : callPc[c] = "idle"
    /\ Distribute(NextCall, candidate[submitCall[s][1]])
    /\ submitPc' = [submitPc EXCEPT ![s] = "second"]
    /\ submitCall' = [submitCall EXCEPT ![s] = Append(submitCall[s], NextCall)]
    /\ UNCHANGED <<response, monVars, regionVars>>

\* the second call settles (lines 357-362); the spam record is saved
\* (lines 366-375)
SubmitSecondDone(s) ==
    /\ submitPc[s] = "second"
    /\ CallSettled(submitCall[s][2])
    /\ LET stage == AfterDistribute(callPc[submitCall[s][2]], "spamSave")
       IN  /\ submitPc' = [submitPc EXCEPT ![s] = stage]
           /\ response' = [response EXCEPT ![s] = ResponseAt(stage, response[s])]
    /\ UNCHANGED <<now, dbVars, callVars, queueVars, jobVars, updVars, submitCall,
                   monVars, regionVars>>

\* req.spamRecord.save() settles (line 374): the handler answers 201
\* (line 379), or the error of the save reaches the catch of line 386
SubmitRespond(s, saved) ==
    /\ submitPc[s] = "spamSave"
    /\ LET stage == IF saved THEN "responded" ELSE "spamFailed"
       IN  /\ submitPc' = [submitPc EXCEPT ![s] = stage]
           /\ response' = [response EXCEPT
                             ![s] = IF saved THEN 201 ELSE ResponseAt(stage, response[s])]
    /\ UNCHANGED <<now, dbVars, callVars, queueVars, jobVars, updVars, submitCall,
                   monVars, regionVars>>

\* requests to the submit route, and the service they call
SubmitNext ==
    \/ \E s \in Submissions : SubmitSave(s)
    \/ \E s \in Submissions : SubmitFirstDone(s)
    \/ \E s \in Submissions : SubmitConfirmSettled(s)
    \/ \E s \in Submissions : SubmitSecondDone(s)
    \/ \E s \in Submissions, saved \in BOOLEAN : SubmitRespond(s, saved)
    \/ \E c \in Calls : CompanyFindReturn(c)
    \/ \E c \in Calls : QueryThrow(c)
    \/ \E c \in Calls : SubscriptionFindReturn(c)
    \/ \E j \in Calls : BatchDelayElapsed(j)
    \/ \E j \in Calls, k \in Positions, i \in Addresses, o \in {"fulfilled", "rejected"} :
          SendSettle(j, k, i, o)
    \/ \E j \in Calls, b \in Batches : BatchSettled(j, b)
    \/ \E j \in Calls, k \in Positions : UpdateReset(j, k)
    \/ \E j \in Calls, k \in Positions : UpdateIncrement(j, k)
    \/ \E d \in Calls : JobSettled(d)
    \/ \E d \in Calls : TaskDelayElapsed(d)
    \/ Tick

SubmitSpec == Init /\ [][SubmitNext]_vars

(***************************************************************************)
(* The monitor (middleware/distributionMonitoring.js).                     *)
(***************************************************************************)
\* mutant of TrimOldest: the newest entries are deleted
TrimNewest(buf) == SubSeq(buf, 1, Len(buf) - trimCount)

\* lines 36-37: the first 100 keys of the map, in insertion order, are deleted
TrimOldest(buf) == SubSeq(buf, Min(trimCount, Len(buf)) + 1, Len(buf))

\* logDistributionAttempt (lines 19-52).  The key (line 31) is the time and
\* a random number: every entry has a key of its own, here its number.
logDistributionAttempt(cid, aid, success, processingTime) ==
    /\ logged < MaxLogs
    /\ LET logEntry == [ key |-> logged + 1,
                         timestamp |-> monNow,
                         candidateId |-> cid,
                         agencyId |-> aid,
                         success |-> success,
                         processingTime |-> processingTime ]
           set == Append(healthChecks, logEntry)
       IN  healthChecks' = IF Len(set) > capacity THEN TrimOldest(set) ELSE set
    /\ logged' = logged + 1
    /\ health' = NoHealth
    /\ UNCHANGED <<monNow, pipeVars, submitVars, regionVars>>

\* mutant of recentLogs: the filter of line 58 left out
allLogs(buf, t) == buf

\* lines 57-58: the entries of the last hour
recentLogs(buf, t) == SelectSeq(buf, LAMBDA log : t - log.timestamp < oneHour)

RECURSIVE SumProcessingTime(_)
\* lines 78-79: reduce((sum, log) => sum + (log.processingTime || 0), 0)
SumProcessingTime(logs) ==
    IF logs = <<>> THEN 0
    ELSE Head(logs).processingTime + SumProcessingTime(Tail(logs))

\* Math.round(a / b) for a >= 0, b > 0
RoundDiv(a, b) == (2 * a + b) \div (2 * b)

\* mutant of StatusOf: the critical test comes first and a warning test
\* overwrites it
StatusOfWarningLast(highFailure, slow, lowSuccess) ==
    IF highFailure \/ slow THEN "warning"
    ELSE IF lowSuccess THEN "critical" ELSE "healthy"

\* lines 82-98: the three tests in order, each overwriting the status
StatusOf(highFailure, slow, lowSuccess) ==
    IF lowSuccess THEN "critical"
    ELSE IF highFailure \/ slow THEN "warning" ELSE "healthy"

\* line 82: failureRate > maxFailureRate, failureRate being failed / total
HighFailure(failed, total) == 100 * failed > maxFailureRate * total

\* mutant of LowSuccess: the threshold itself counts as low
LowSuccessOrEqual(successful, total) == 100 * successful <= minSuccessRate * total

\* line 92: successRate < minSuccessRate, successRate being successful / total
LowSuccess(successful, total) == 100 * successful < minSuccessRate * total

\* getHealthStatus (lines 55-122) on the map buf at time t; rates are
\* compared as fractions (failed / total > 0.1 is 100 * failed > 10 * total)
\* and reported in percent
getHealthStatus(buf, t) ==
    LET logs == recentLogs(buf, t)
        totalAttempts == Len(logs)
        successful == Len(SelectSeq(logs, LAMBDA log : log.success))
        failed == totalAttempts - successful
        sum == SumProcessingTime(logs)
        highFailure == HighFailure(failed, totalAttempts)
        slow == sum > maxProcessingTime * totalAttempts
        lowSuccess == LowSuccess(successful, totalAttempts)
        status == StatusOf(highFailure, slow, lowSuccess)
        issues == (IF highFailure THEN <<"High failure rate">> ELSE <<>>)
                  \o (IF slow THEN <<"Slow processing">> ELSE <<>>)
                  \o (IF lowSuccess THEN <<"Low success rate">> ELSE <<>>)
    IN  IF totalAttempts = 0
        THEN [ status |-> "unknown",
               metrics |-> [ totalAttempts |-> 0, successRate |-> 0,
                             failureRate |-> 0, avgProcessingTime |-> 0 ] ]
        ELSE [ status |-> status,
               metrics |-> [ totalAttempts |-> totalAttempts,
                             successful |-> successful,
                             failed |-> failed,
                             successRate |-> RoundDiv(100 * successful, totalAttempts),
                             failureRate |-> RoundDiv(100 * failed, totalAttempts),
                             avgProcessingTime |-> RoundDiv(sum, totalAttempts) ],
               issues |-> IF status # "healthy" THEN issues ELSE <<>> ]

\* a call of getHealthStatus (admin routes, and the timer of line 127)
GetHealthStatus ==
    /\ health' = getHealthStatus(healthChecks, monNow)
    /\ UNCHANGED <<healthChecks, logged, monNow, pipeVars, submitVars, regionVars>>

\* the clock of the monitor advances by half an hour
MonTick ==
    /\ monNow < MaxMonNow
    /\ monNow' = monNow + 1
    /\ health' = NoHealth
    /\ UNCHANGED <<healthChecks, logged, pipeVars, submitVars, regionVars>>

\* the monitor alone, the service idle on a store of schema defaults
MonInit ==
    /\ maxBatchSize = 1
    /\ now = InitNow
    /\ subscription = [a \in Agencies |->
                          [status |-> "active", expirationDate |-> InitNow]]
    /\ company = [a \in Agencies |->
                     [enabled |-> TRUE, maxCVsPerDay |-> 0, dailyCount |-> 0,
                      lastCountReset |-> InitNow - oneDay]]
    /\ company0 = company
    /\ recruitmentEmails = [a \in Agencies |-> OneActiveEmail]
    /\ ServiceInit
    /\ SubmitInit
    /\ MonitorInit
    /\ NoRegionCall

MonNext ==
    \/ \E success \in BOOLEAN, processingTime \in ProcessingTimes :
          logDistributionAttempt(1, 1, success, processingTime)
    \/ GetHealthStatus
    \/ MonTick

MonSpec == MonInit /\ [][MonNext]_vars

(***************************************************************************)
(* Eligibility resolution over every kind of document: one call of         *)
(* distributeCVToAgencies, run to the end of its job, on a store whose     *)
(* first agency has any settings and any subscription.                     *)
(***************************************************************************)
\* distributionSettings of an agency: cap unset (0) or set, any count up to
\* the default cap, last reset over a day ago, exactly a day ago, or now
ResolveCompanyDocs ==
    { [enabled |-> e, maxCVsPerDay |-> m, dailyCount |-> n, lastCountReset |-> r] :
        e \in BOOLEAN,
        m \in {0, 1, defaultMaxCVsPerDay + 1},
        n \in 0..defaultMaxCVsPerDay,
        r \in {InitNow - oneDay - 1, InitNow - oneDay, InitNow} }

\* a Subscription document: any status, expired, expiring now, or running
ResolveSubscriptions ==
    { [status |-> st, expirationDate |-> e] :
        st \in {"active", "inactive", "expired"},
        e \in {InitNow - 1, InitNow, InitNow + oneDay + 1} }

\* the second agency is subscribed with fresh schema defaults, the others
\* have a subscription that ran out
ResolveInit ==
    /\ maxBatchSize \in BatchSizes
    /\ now = InitNow
    /\ \E sub \in ResolveSubscriptions :
          subscription =
             [a \in Agencies |->
                 IF a = 1 THEN sub
                 ELSE [status |-> "active",
                       expirationDate |-> IF a = 2 THEN InitNow + oneDay + 1
                                          ELSE InitNow]]
    /\ \E doc \in ResolveCompanyDocs :
          company =
             [a \in Agencies |->
                 IF a = 1 THEN doc
                 ELSE [enabled |-> TRUE, maxCVsPerDay |-> 0, dailyCount |-> 0,
                       lastCountReset |-> InitNow - oneDay]]
    /\ company0 = company
    /\ recruitmentEmails = [a \in Agencies |-> OneActiveEmail]
    /\ ServiceInit
    /\ SubmitInit
    /\ MonitorInit
    /\ NoRegionCall

\* PUT /settings of agency a with only `enabled` in the body
\* (recruitmentEmails.js lines 340-350): one findByIdAndUpdate
PutSettings(a, e) ==
    /\ company[a].enabled # e
    /\ company' = [company EXCEPT ![a].enabled = e]
    /\ UNCHANGED <<now, subscription, maxBatchSize, company0, recruitmentEmails,
                   callVars, queueVars, jobVars, updVars, submitVars, monVars,
                   regionVars>>

\* the first call and everything it starts
ResolveNext ==
    \/ Call(1)
    \/ CompanyFindReturn(1)
    \/ QueryThrow(1)
    \/ SubscriptionFindReturn(1)
    \/ BatchDelayElapsed(1)
    \/ \E k \in Positions, i \in Addresses, o \in {"fulfilled", "rejected"} :
          SendSettle(1, k, i, o)
    \/ \E b \in Batches : BatchSettled(1, b)
    \/ \E k \in Positions : UpdateReset(1, k)
    \/ \E k \in Positions : UpdateIncrement(1, k)
    \/ \E k \in Positions : UpdateThrow(1, k)
    \/ JobSettled(1)
    \/ \E e \in BOOLEAN : PutSettings(1, e)
    \/ Tick

ResolveSpec == ResolveInit /\ [][ResolveNext]_vars

(***************************************************************************)
(* Delivery over every kind of address list: one call of                   *)
(* distributeCVToAgencies, run to the end of its job, on a store whose     *)
(* first agency has any list of recruitment addresses and whose quota      *)
(* updates may fail.                                                       *)
(***************************************************************************)
\* the recruitmentEmails of an agency: up to MaxEmails addresses, each
\* active or not (part_004 lines 79-83)
EmailLists ==
    UNION { [1..n -> [isActive : BOOLEAN]] : n \in 0..MaxEmails }

\* the first two agencies are subscribed with fresh schema defaults, the
\* others have a subscription that ran out; the second agency has one
\* active address
DeliverInit ==
    /\ maxBatchSize \in BatchSizes
    /\ now = InitNow
    /\ subscription =
          [a \in Agencies |->
              [status |-> "active",
               expirationDate |-> IF a <= 2 THEN InitNow + oneDay + 1 ELSE InitNow]]
    /\ company = [a \in Agencies |->
                     [enabled |-> TRUE, maxCVsPerDay |-> 0, dailyCount |-> 0,
                      lastCountReset |-> InitNow - oneDay]]
    /\ company0 = company
    /\ \E emails \in EmailLists :
          recruitmentEmails =
             [a \in Agencies |-> IF a = 1 THEN emails ELSE OneActiveEmail]
    /\ ServiceInit
    /\ SubmitInit
    /\ MonitorInit
    /\ NoRegionCall

\* the first call and everything it starts
DeliverNext ==
    \/ Call(1)
    \/ CompanyFindReturn(1)
    \/ SubscriptionFindReturn(1)
    \/ BatchDelayElapsed(1)
    \/ \E k \in Positions, i \in Addresses, o \in {"fulfilled", "rejected"} :
          SendSettle(1, k, i, o)
    \/ \E b \in Batches : BatchSettled(1, b)
    \/ \E k \in Positions : UpdateReset(1, k)
    \/ \E k \in Positions : UpdateIncrement(1, k)
    \/ \E k \in Positions : UpdateThrow(1, k)
    \/ JobSettled(1)
    \/ Tick

DeliverSpec == DeliverInit /\ [][DeliverNext]_vars

(***************************************************************************)
(* Failing quota updates under load: any number of calls on a store of two *)
(* subscribed agencies with fresh schema defaults, whose storage updates   *)
(* may throw.                                                              *)
(***************************************************************************)
UpdateFailInit ==
    /\ maxBatchSize \in BatchSizes
    /\ now = InitNow
    /\ subscription =
          [a \in Agencies |->
              [status |-> "active",
               expirationDate |-> IF a <= 2 THEN InitNow + oneDay + 1 ELSE InitNow]]
    /\ company = [a \in Agencies |->
                     [enabled |-> TRUE, maxCVsPerDay |-> 0, dailyCount |-> 0,
                      lastCountReset |-> InitNow - oneDay]]
    /\ company0 = company
    /\ recruitmentEmails = [a \in Agencies |-> OneActiveEmail]
    /\ ServiceInit
    /\ SubmitInit
    /\ MonitorInit
    /\ NoRegionCall

UpdateFailNext ==
    \/ Next
    \/ \E j \in Calls, k \in Positions : UpdateThrow(j, k)

UpdateFailSpec == UpdateFailInit /\ [][UpdateFailNext]_vars

(***************************************************************************)
(* extractRegionFromCandidate on its own (lines 61-102): one call on a     *)
(* candidate with any location, address and city.                          *)
(***************************************************************************)
\* location: unset, a token in lower, upper and mixed case, a word that is
\* no token, and words that contain a token without being one
Locations ==
    { <<>>,
      <<"n", "o", "r", "t", "h">>,
      <<"N", "O", "R", "T", "H">>,
      <<"S", "o", "u", "t", "h">>,
      <<"c", "e", "n", "t", "e", "r">>,
      <<"L", "o", "w", "l", "a", "n", "d", "s">>,
      <<"e", "a", "s", "t">>,
      <<"n", "o", "r", "t", "h", "e", "r", "n">>,
      <<" ", "s", "o", "u", "t", "h">> }

\* address: unset, a city in lower case and capitalised, a city inside a
\* longer text, two cities of different regions (the later one of the
\* table written first), a city of the last section, and no city
Addresses_ ==
    { <<>>,
      <<"h", "a", "i", "f", "a">>,
      <<"A", "r", "a", "d">>,
      <<"1", "2", " ", "h", "e", "r", "z", "l", " ", "s", "t", " ", "t", "e", "l", " ", "a", "v", "i", "v">>,
      <<"a", "r", "a", "d", " ", "n", "e", "a", "r", " ", "h", "a", "i", "f", "a">>,
      <<"J", "E", "R", "U", "S", "A", "L", "E", "M">>,
      <<"e", "i", "l", "a", "t">> }

\* city: unset, cities of the table and one that is not in it
Cities ==
    { <<>>,
      <<"a", "s", "h", "d", "o", "d">>,
      <<"A", "c", "r", "e">>,
      <<"p", "a", "r", "i", "s">> }

RegionInputs ==
    { [id |-> 1, positions |-> 1, location |-> l, address |-> a, city |-> c] :
        l \in Locations, a \in Addresses_, c \in Cities }

\* the service idle on a store of schema defaults
RegionInit ==
    /\ maxBatchSize = 1
    /\ now = InitNow
    /\ subscription = [a \in Agencies |->
                          [status |-> "active", expirationDate |-> InitNow]]
    /\ company = [a \in Agencies |->
                     [enabled |-> TRUE, maxCVsPerDay |-> 0, dailyCount |-> 0,
                      lastCountReset |-> InitNow - oneDay]]
    /\ company0 = company
    /\ recruitmentEmails = [a \in Agencies |-> OneActiveEmail]
    /\ ServiceInit
    /\ SubmitInit
    /\ MonitorInit
    /\ regionArg \in RegionInputs
    /\ candidateRegion = ""

\* a call of extractRegionFromCandidate (line 23, line 303)
ExtractRegion ==
    /\ candidateRegion = ""
    /\ candidateRegion' = extractRegionFromCandidate(regionArg)
    /\ UNCHANGED <<regionArg, pipeVars, submitVars, monVars>>

RegionNext == ExtractRegion

RegionSpec == RegionInit /\ [][RegionNext]_vars

(***************************************************************************)
(* Properties.                                                             *)
(***************************************************************************)
\* the drain loops past the guard of line 177 that have not reached line 197
ActiveDrains == { d \in Calls : drainPc[d] \in {"task", "delay"} }

JobLen(j) == Len(task[j])

\* the sends issued and not settled
InFlight == { <<j, k>> \in Calls \X Positions : send[j][k] = "pending" }

\* C1: at most one drain loop is active at any time, and a drain loop is
\* active only while isProcessing is true, whatever the interleaving of
\* distributeCVToAgencies calls with the suspended drain.
C1_SingleDrainLoop ==
    /\ Cardinality(ActiveDrains) <= 1
    /\ (ActiveDrains # {}) <=> isProcessing

\* a call enqueued a job while the drain loop of another call was suspended
C1_Witness ==
    \E d \in ActiveDrains : \E c \in Calls \ {d} :
        /\ callPc[c] = "returned"
        /\ c \in Range(distributionQueue)
        /\ drainPc[c] = "none"

\* C2: no send of a later job is issued before every send of every earlier
\* job, in all of its batches, has settled.
C2_JobsSequential ==
    \A p, q \in 1..Len(started) :
        (p < q /\ \E k \in Positions : send[started[q]][k] # "none")
            => \A k \in 1..JobLen(started[p]) : Settled(send[started[p]][k])

\* a second job has its sends issued after a first job of two batches
C2_Witness ==
    /\ Len(started) >= 2
    /\ NumBatches(JobLen(started[1])) >= 2
    /\ \E k \in Positions : send[started[2]][k] = "pending"

\* C3: within one job, no send of batch b+1 is issued before all the sends
\* of batch b have settled.
C3_BatchesSequential ==
    \A j \in Calls : \A b \in Batches :
        (b + 1 \in Batches /\ batchPc[j][b + 1] # "none")
            => \A k \in BatchPositions(JobLen(j), b) : Settled(send[j][k])

\* C4: the number of sends issued and not settled never exceeds
\* maxBatchSize.
C4_BoundedInFlight == Cardinality(InFlight) <= maxBatchSize

\* C5: jobs start in the order they were enqueued, each exactly once: the
\* jobs started are a prefix of the jobs enqueued and the queue holds the
\* rest, in order.
C5_FifoExactlyOnce ==
    /\ Len(started) <= Len(enqueued)
    /\ started = SubSeq(enqueued, 1, Len(started))
    /\ distributionQueue = SubSeq(enqueued, Len(started) + 1, Len(enqueued))
    /\ \A p, q \in 1..Len(enqueued) : p # q => enqueued[p] # enqueued[q]

\* two jobs waited in the queue together behind a running job
C5_Witness ==
    /\ Len(distributionQueue) >= 2
    /\ Len(started) >= 1

\* every job that was enqueued is finished, with every agency attempted
AllJobsDone ==
    \A j \in Range(enqueued) :
        /\ psdPc[j] = "done"
        /\ \A k \in 1..JobLen(j) : send[j][k] # "none"

\* the event loop has nothing left to run: no query, delivery, storage
\* update or timer is outstanding and no continuation is ready
Quiescent ==
    /\ \A c \in Calls :
          /\ callPc[c] \in {"idle", "returned", "rejected"}
          /\ psdPc[c] # "delay"
          /\ drainPc[c] # "delay"
          /\ drainPc[c] = "task" =>
                ~(/\ psdPc[drainTask[c]] = "allSettled"
                  /\ AllBatchesSettled(batchPc[drainTask[c]], JobLen(drainTask[c])))
          /\ \A k \in Positions :
                /\ send[c][k] # "pending"
                /\ \A i \in 1..Len(delivery[c][k]) : delivery[c][k][i] # "pending"
                /\ upd[c][k] \in {"none", "done", "failed"}
          /\ \A b \in Batches :
                batchPc[c][b] = "allSettled" =>
                    ~AllSendsSettled(send[c], BatchPositions(JobLen(c), b))

\* the delivery calls of position k of job j that have not settled
PendingDeliveries(j, k) ==
    Cardinality({i \in 1..Len(delivery[j][k]) : delivery[j][k][i] = "pending"})

\* the steps the event loop still has to run for position k of job j
PositionRank(j, k) ==
    PendingDeliveries(j, k) +
    CASE send[j][k] = "none" -> 3 + MaxEmails
      [] send[j][k] = "pending" -> 3
      [] send[j][k] = "rejected" -> 0
      [] OTHER -> CASE upd[j][k] \in {"none", "reset"} -> 2
                    [] upd[j][k] = "inc" -> 1
                    [] OTHER -> 0

BatchRank(j, b) ==
    CASE batchPc[j][b] = "none" -> 2
      [] batchPc[j][b] = "allSettled" -> 1
      [] OTHER -> 0

RECURSIVE BatchRankTo(_, _)
BatchRankTo(j, n) == IF n = 0 THEN 0 ELSE BatchRank(j, n) + BatchRankTo(j, n - 1)

RECURSIVE PositionRankTo(_, _)
PositionRankTo(j, n) ==
    IF n = 0 THEN 0 ELSE PositionRank(j, n) + PositionRankTo(j, n - 1)

\* a job exists from the push of line 45 on; its agencies list is not empty
JobRank(j) ==
    IF task[j] = <<>> THEN 0
    ELSE (IF psdPc[j] = "done" THEN 0 ELSE 2)
         + BatchRankTo(j, NumBatches(JobLen(j)))
         + PositionRankTo(j, JobLen(j))

MaxJobRank == 2 + 2 * NumAgencies + (3 + MaxEmails) * NumAgencies

CallRank(c) ==
    CASE callPc[c] = "companyFind" -> 2 + MaxJobRank
      [] callPc[c] = "subscriptionFind" -> 1 + MaxJobRank
      [] OTHER -> 0

DrainRank(d) == IF drainPc[d] = "delay" THEN 1 ELSE 0

RECURSIVE RankTo(_)
RankTo(n) ==
    IF n = 0 THEN 0
    ELSE CallRank(n) + JobRank(n) + DrainRank(n) + RankTo(n - 1)

\* a bound on the number of steps the event loop has left to run
Rank == RankTo(NumCalls)

\* a step of the environment: a new call, or the clock
EnvironmentStep ==
    \/ now' # now
    \/ \E c \in Calls : callPc[c] = "idle" /\ callPc'[c] # "idle"

\* C6: every enqueued job is eventually processed.  No job waits in the
\* queue without an active drain loop; whenever the event loop has nothing
\* left to run, every enqueued job is finished with every agency attempted;
\* and every step of the event loop lowers a bound on the steps left, so
\* that, deliveries and delays settling, that point is reached.
C6_EveryJobProcessed ==
    /\ [](distributionQueue # <<>> => (isProcessing /\ ActiveDrains # {}))
    /\ [](Quiescent => AllJobsDone)
    /\ [][~EnvironmentStep => Rank' < Rank]_vars

\* a job enqueued while another call's drain loop was running was processed
\* by that loop, which then stopped on the empty queue
C6_Witness ==
    /\ Len(started) >= 2
    /\ drainPc[started[2]] = "none"
    /\ psdPc[started[2]] = "done"
    /\ distributionQueue = <<>>
    /\ ~isProcessing

\* C7: a call has returned as soon as its job is enqueued, whatever the
\* state of the deliveries, and the count it returned is the number of
\* agencies of that job (0 when it enqueued none).
C7_ReturnsCountAtEnqueue ==
    \A c \in Calls :
        /\ (callPc[c] = "returned") <=> (distributed[c] >= 0)
        /\ c \in Range(enqueued) => callPc[c] = "returned"
        /\ callPc[c] = "returned" =>
              /\ distributed[c] = JobLen(c)
              /\ (distributed[c] > 0) <=> (c \in Range(enqueued))

\* a call returned 2 or more while one of its sends is pending and another
\* one has failed
C7_Witness ==
    \E c \in Calls :
        /\ callPc[c] = "returned"
        /\ distributed[c] >= 2
        /\ \E k \in Positions : send[c][k] = "pending"
        /\ \E k \in Positions : send[c][k] = "rejected"

\* the positions of job j whose send has the given state
SendsIn(j, st) == { k \in 1..JobLen(j) : send[j][k] = st }

\* C8: a failed send is isolated.  Once a batch is processed, every agency
\* of the batch whose send succeeded is counted as a success and has its
\* quota update issued, whatever happened to its siblings; once a job is
\* finished every agency of every batch was attempted, and the tally counts
\* each success and each failure.
C8_FailureIsolated ==
    \A j \in Calls :
        /\ \A b \in Batches :
              batchPc[j][b] = "done" =>
                  LET P == BatchPositions(JobLen(j), b)
                  IN  /\ \A k \in P : send[j][k] = "fulfilled" => upd[j][k] # "none"
                      /\ batchResult[j][b].success
                            = Cardinality({k \in P : send[j][k] = "fulfilled"})
                      /\ batchResult[j][b].errors
                            = Cardinality({k \in P : send[j][k] = "rejected"})
        /\ psdPc[j] = "done" =>
              /\ \A k \in 1..JobLen(j) : Settled(send[j][k])
              /\ jobResult[j].success = Cardinality(SendsIn(j, "fulfilled"))
              /\ jobResult[j].errors = Cardinality(SendsIn(j, "rejected"))

\* in one batch a send failed and its sibling succeeded, was counted and
\* had its daily count updated
C8_Witness ==
    \E j \in Calls : \E b \in Batches :
        \E k1, k2 \in BatchPositions(JobLen(j), b) :
            /\ batchPc[j][b] = "done"
            /\ send[j][k1] = "rejected"
            /\ send[j][k2] = "fulfilled"
            /\ upd[j][k2] = "done"
            /\ batchResult[j][b].success = 1

\* the quota update of position k of job j is the only one, so far, of its
\* agency
OnlyUpdate(j, k) ==
    \A j2 \in Calls : \A k2 \in 1..JobLen(j2) :
        (<<j2, k2>> # <<j, k>> /\ task[j2][k2] = task[j][k]) => upd[j2][k2] = "none"

\* the settings the claim expects after one successful send accounted at
\* time t, from settings doc
VirtualReset(doc, t) ==
    IF doc.lastCountReset < t - oneDay
    THEN [doc EXCEPT !.dailyCount = 1, !.lastCountReset = t]
    ELSE [doc EXCEPT !.dailyCount = doc.dailyCount + 1]

\* C9: when updateDailyCount completes for an agency (and is the only update
\* of that agency so far), the agency's dailyCount is 1 and lastCountReset is
\* the time of the update if the last reset was over a day old, and
\* dailyCount is one more and lastCountReset unchanged otherwise.
C9_VirtualResetOnIncrement ==
    [][ \A j \in Calls : \A k \in 1..JobLen(j) :
           (upd[j][k] = "inc" /\ upd'[j][k] = "done" /\ OnlyUpdate(j, k))
               => company'[task[j][k]]
                     = VirtualReset(company0[task[j][k]], updNow[j][k]) ]_vars

\* C10: the daily count of an agency never exceeds its daily cap.
C10_DailyCapRespected ==
    \A a \in Agencies : company[a].dailyCount <= maxDaily(company[a])

\* the cap the claim names: maxPerDay, 50 (scaled) when unset
MaxPerDay(doc) ==
    IF doc.maxCVsPerDay = 0 THEN defaultMaxCVsPerDay ELSE doc.maxCVsPerDay

\* the effective count the claim names, at time t
EffectiveCount(doc, t) ==
    IF t - doc.lastCountReset > oneDay THEN 0 ELSE doc.dailyCount

\* the subscription of agency a is valid at time t
ValidSubscription(a, t) ==
    subscription[a].status = "active" /\ subscription[a].expirationDate > t

\* C11: when a call resolves its agencies, an agency returned by the region
\* query whose subscription is valid is in the resolved list if and only if
\* its effective count (0 when the last reset is over a day old at the time
\* of the call, the stored count otherwise) is below its cap (the default
\* when unset).
C11_QuotaFilter ==
    [][ \A c \in Calls :
           (callPc[c] = "subscriptionFind" /\ callPc'[c] = "returned")
               => \A i \in 1..Len(agencies[c]) :
                     LET doc == agencies[c][i]
                     IN  ValidSubscription(doc.id, callNow[c])
                            => ((doc.id \in Range(task'[c]))
                                  <=> (EffectiveCount(doc, callNow[c])
                                          < MaxPerDay(doc))) ]_vars

\* an agency at its cap whose last reset was over a day old was resolved,
\* next to one whose count is below its cap
C11_Witness ==
    /\ callPc[1] = "returned"
    /\ company0[1].dailyCount >= MaxPerDay(company0[1])
    /\ company0[1].lastCountReset < InitNow - oneDay
    /\ task[1] = <<1, 2>>

\* the outcomes the monitor holds for candidate cid and agency a
OutcomesFor(cid, a) ==
    { i \in 1..Len(healthChecks) :
        healthChecks[i].candidateId = cid /\ healthChecks[i].agencyId = a }

\* C12: once a job is finished, the monitor holds exactly one outcome for
\* each agency of the job (N outcomes for a job of N agencies).
C12_EveryAttemptRecorded ==
    \A j \in Calls :
        psdPc[j] = "done" =>
            \A k \in 1..JobLen(j) :
                Cardinality(OutcomesFor(candidate[j].id, task[j][k])) = 1

\* C13: an agency appears at most once in a job's list, and no agency is
\* sent the same candidate twice: two sends issued to one agency for one
\* candidate are the same send.
C13_NoDuplicateSend ==
    \A j1, j2 \in Calls :
        \A k1 \in 1..JobLen(j1) : \A k2 \in 1..JobLen(j2) :
            (/\ candidate[j1].id = candidate[j2].id
             /\ task[j1][k1] = task[j2][k2]
             /\ send[j1][k1] # "none"
             /\ send[j2][k2] # "none")
                => (j1 = j2 /\ k1 = k2)

\* no agency returned to call c by the region query has both a valid
\* subscription and a count below its cap
NoneEligible(c) ==
    \A i \in 1..Len(agencies[c]) :
        ~(/\ ValidSubscription(agencies[c][i].id, callNow[c])
          /\ EffectiveCount(agencies[c][i], callNow[c]) < MaxPerDay(agencies[c][i]))

\* C14: a call for which no agency is eligible returns success with a count
\* of 0 and leaves the queue and the drain flag as they are; a call that
\* returned 0 has no job, started no drain loop and has no send, ever.
C14_NoAgencyNoDispatch ==
    /\ [][ \A c \in Calls :
              (callPc[c] = "subscriptionFind" /\ callPc'[c] # "subscriptionFind"
                  /\ callPc'[c] # "rejected" /\ NoneEligible(c))
                  => /\ callPc'[c] = "returned"
                     /\ distributed'[c] = 0
                     /\ UNCHANGED <<distributionQueue, isProcessing, enqueued,
                                    started, drainPc>> ]_vars
    /\ [](\A c \in Calls :
              (callPc[c] = "returned" /\ distributed[c] = 0)
                  => /\ c \notin Range(enqueued)
                     /\ c \notin Range(distributionQueue)
                     /\ drainPc[c] = "none"
                     /\ \A k \in Positions : send[c][k] = "none")

\* a call for a candidate of a region no agency serves returned 0
C14_Witness ==
    /\ callPc[1] = "returned"
    /\ distributed[1] = 0
    /\ extractRegionFromCandidate(candidate[1]) = "south"
    /\ \A a \in Agencies : "south" \notin AgencyDoc(a).supportRegions

\* the agencies whose subscription is not valid at any time of the run (a
\* subscription is never changed and the clock only advances)
NeverValid == { a \in Agencies : ~ValidSubscription(a, InitNow) }

\* C15: an agency without a valid subscription at the time of the call is
\* left out of the resolved list; an agency whose subscription is never
\* valid is in no job, its settings never change and the monitor holds no
\* outcome for it; and when the quota update of a resolved agency completes
\* (the only one for it so far) its dailyCount is one more than its
\* effective count.
C15_SubscriptionFilter ==
    /\ [][ \A c \in Calls :
              (callPc[c] = "subscriptionFind" /\ callPc'[c] = "returned")
                  => \A i \in 1..Len(agencies[c]) :
                        ~ValidSubscription(agencies[c][i].id, callNow[c])
                            => agencies[c][i].id \notin Range(task'[c]) ]_vars
    /\ [](\A a \in NeverValid :
              /\ \A j \in Calls : a \notin Range(task[j])
              /\ company[a] = company0[a]
              /\ \A i \in 1..Len(healthChecks) : healthChecks[i].agencyId # a)
    /\ [][ \A j \in Calls : \A k \in 1..JobLen(j) :
              (upd[j][k] = "inc" /\ upd'[j][k] = "done" /\ OnlyUpdate(j, k))
                  => company'[task[j][k]].dailyCount
                        = EffectiveCount(company0[task[j][k]], updNow[j][k]) + 1 ]_vars

\* the keys of the entries the monitor holds, in the order of the map
Keys == [i \in 1..Len(healthChecks) |-> healthChecks[i].key]

\* C16: the monitor never holds more than its capacity; what it holds are
\* the entries inserted last, in insertion order (the oldest went first);
\* and from the insertion after the capacity was reached on, the first
\* entry inserted is gone while the newest is present.
C16_BoundedFifoBuffer ==
    /\ Len(healthChecks) <= capacity
    /\ Keys = [i \in 1..Len(healthChecks) |-> logged - Len(healthChecks) + i]
    /\ logged > 0 => Len(healthChecks) > 0
    /\ logged >= capacity + 1 =>
          /\ \A i \in 1..Len(healthChecks) : healthChecks[i].key # 1
          /\ healthChecks[Len(healthChecks)].key = logged

\* the insertion after the capacity was reached has trimmed the map
C16_Witness ==
    /\ logged = capacity + 1
    /\ Len(healthChecks) = capacity + 1 - trimCount

\* an entry is younger than one hour at time t
Younger(log, t) == t - log.timestamp < oneHour

\* the entries of the map that are younger than one hour
YoungEntries == SelectSeq(healthChecks, LAMBDA log : Younger(log, monNow))

\* C17: the value getHealthStatus returns is "unknown" with zero metrics
\* when no entry of the map is younger than one hour, and in every case it
\* is the value it returns on the map without its entries of an hour or
\* more.
C17_TrailingHourOnly ==
    health.status # "none" =>
        /\ (YoungEntries = <<>>) <=> (health.status = "unknown")
        /\ health.status = "unknown" =>
               /\ health.metrics.totalAttempts = 0
               /\ health.metrics.successRate = 0
               /\ health.metrics.failureRate = 0
               /\ health.metrics.avgProcessingTime = 0
        /\ health.status # "unknown" =>
               /\ health.metrics.totalAttempts = Len(YoungEntries)
               /\ health = getHealthStatus(YoungEntries, monNow)

\* unknown was returned on a map that holds entries, all an hour old or more
C17_Witness ==
    /\ health.status = "unknown"
    /\ healthChecks # <<>>

\* the window the claim speaks of: counts over the young entries
WindowTotal == Len(YoungEntries)
WindowFailed == Len(SelectSeq(YoungEntries, LAMBDA log : ~log.success))
WindowTime == SumProcessingTime(YoungEntries)

\* the three conditions of the claim, on the window
LowSuccessRate == 100 * (WindowTotal - WindowFailed) < minSuccessRate * WindowTotal
HighFailureRate == 100 * WindowFailed > maxFailureRate * WindowTotal
SlowProcessing == WindowTime > maxProcessingTime * WindowTotal
Triggered ==
    (IF LowSuccessRate THEN 1 ELSE 0) + (IF HighFailureRate THEN 1 ELSE 0)
        + (IF SlowProcessing THEN 1 ELSE 0)

\* C18: on a non-empty window the status returned is critical when the
\* success rate is below its threshold, otherwise warning when the failure
\* rate or the average processing time is above its threshold, otherwise
\* healthy; issues has one entry per triggered condition and is empty
\* exactly when the status is healthy; a failure rate above the threshold
\* never gives healthy or unknown.
C18_MostSevereStatus ==
    (health.status # "none" /\ WindowTotal > 0) =>
        /\ health.status =
              (IF LowSuccessRate THEN "critical"
               ELSE IF HighFailureRate \/ SlowProcessing THEN "warning"
               ELSE "healthy")
        /\ Len(health.issues) = Triggered
        /\ (health.issues = <<>>) <=> (health.status = "healthy")
        /\ HighFailureRate => health.status \notin {"healthy", "unknown"}

\* critical was returned on a window that is also slow: three issues
C18_Witness ==
    /\ health.status = "critical"
    /\ SlowProcessing
    /\ Len(health.issues) = 3

\* the candidate is null or has no positions
Malformed(cand) == cand = NullCandidate \/ cand.positions = 0

\* C19: a call made with a null candidate or one without positions
\* rejects at once; the step in which a call rejects (malformed candidate,
\* or a failed query) leaves the queue, the drain flag, the jobs and every
\* send as they are; a rejected call has no job and no send; and a call
\* that has enqueued its job has returned and stays returned, whatever
\* happens to its deliveries.
C19_ErrorsBeforeEnqueue ==
    /\ [][ \A c \in Calls :
              /\ (callPc[c] = "idle" /\ callPc'[c] # "idle" /\ Malformed(candidate'[c]))
                     => callPc'[c] = "rejected"
              /\ (callPc[c] # "rejected" /\ callPc'[c] = "rejected")
                     => UNCHANGED <<queueVars, jobVars, updVars, dbVars>>
              /\ callPc[c] = "returned" => callPc'[c] = "returned" ]_vars
    /\ [](\A c \in Calls :
              /\ callPc[c] = "rejected" =>
                    /\ c \notin Range(enqueued)
                    /\ task[c] = <<>>
                    /\ \A k \in Positions : send[c][k] = "none"
              /\ c \in Range(enqueued) => callPc[c] = "returned")

\* a call was rejected by a failed query while the drain loop ran, and a
\* call that had returned has a failed delivery
C19_Witness ==
    /\ isProcessing
    /\ \E c \in Calls : callPc[c] = "rejected" /\ ~Malformed(candidate[c])
    /\ \E c \in Calls : callPc[c] = "rejected" /\ Malformed(candidate[c])
    /\ \E c \in Calls : callPc[c] = "returned" /\ send[c][1] = "rejected"

\* C20: the submit handler answers 201 whatever its calls of
\* distributeCVToAgencies did: the settling of a call, rejected or not,
\* moves the handler to its next stage without a response, a handler that
\* ran to its end answered 201, and one that answered anything else failed
\* to save the spam record.
C20_SubmissionNeverFails ==
    /\ [][ \A s \in Submissions :
              (submitPc[s] \in {"first", "second"} /\ submitPc'[s] # submitPc[s])
                  => /\ response'[s] = 0
                     /\ submitPc'[s] = IF submitPc[s] = "first" THEN "confirm"
                                       ELSE "spamSave" ]_vars
    /\ [](\A s \in Submissions :
              /\ submitPc[s] = "responded" => response[s] = 201
              /\ response[s] \notin {0, 201} => submitPc[s] = "spamFailed")

\* the handler answered 201 after one call was rejected and a delivery of
\* the other one failed
C20_Witness ==
    \E s \in Submissions :
        /\ response[s] = 201
        /\ Len(submitCall[s]) = 2
        /\ \E i, j \in 1..2 :
              /\ callPc[submitCall[s][i]] = "rejected"
              /\ send[submitCall[s][j]][1] = "rejected"

\* the batches of job j that processSingleDistribution has issued
IssuedBatches(j) == { b \in Batches : batchPc[j][b] # "none" }

\* ceil(n / d) as the claim names it: the least q with q * d >= n
CeilDiv(n, d) == CHOOSE q \in 0..n : q * d >= n /\ \A r \in 0..n : r * d >= n => q <= r

\* C21: the batches issued for a job are consecutive slices of its list, in
\* list order, each of 1 to maxBatchSize agencies; the agencies sent to are
\* those of the issued batches, no agency is in two batches; and once the
\* loop has ended, ceil(N / maxBatchSize) batches were issued and every
\* agency of the job is in exactly one of them.
C21_BatchPartition ==
    \A j \in Calls :
        LET n == JobLen(j)
            In(k) == { b \in IssuedBatches(j) : k \in BatchPositions(n, b) }
        IN  /\ \A b \in IssuedBatches(j) :
                  LET P == BatchPositions(n, b)
                      before == UNION { BatchPositions(n, x) : x \in 1..(b - 1) }
                  IN  /\ \A x \in 1..(b - 1) : x \in IssuedBatches(j)
                      /\ Cardinality(P) >= 1
                      /\ Cardinality(P) <= maxBatchSize
                      /\ P = (Cardinality(before) + 1)..(Cardinality(before) + Cardinality(P))
            /\ \A k \in 1..n :
                  /\ Cardinality(In(k)) <= 1
                  /\ (send[j][k] # "none") <=> (In(k) # {})
            /\ psdPc[j] \in {"allSettled", "done"} =>
                  /\ Cardinality(IssuedBatches(j)) = CeilDiv(n, maxBatchSize)
                  /\ \A k \in 1..n : Cardinality(In(k)) = 1

\* a job of three agencies was cut into a batch of two and a batch of one
C21_Witness ==
    \E j \in Calls :
        /\ JobLen(j) = 3
        /\ maxBatchSize = 2
        /\ psdPc[j] = "done"
        /\ IssuedBatches(j) = {1, 2}
        /\ Cardinality(BatchPositions(3, 2)) = 1

\* C22: when a job finishes while another job waits in the queue, the
\* drain loop starts that job in the same turn; it is never suspended on a
\* delay between two jobs.
C22_NoDelayBetweenJobs ==
    /\ [][ \A d \in Calls :
              (/\ drainPc[d] = "task"
               /\ psdPc[drainTask[d]] # "done"
               /\ psdPc'[drainTask[d]] = "done"
               /\ distributionQueue # <<>>)
                  => /\ drainPc'[d] = "task"
                     /\ drainTask'[d] = Head(distributionQueue)
                     /\ started' = Append(started, Head(distributionQueue)) ]_vars
    /\ [](\A d \in Calls : drainPc[d] # "delay")

\* agency a has no active recruitment address
NoActiveAddress(a) ==
    \A i \in 1..Len(recruitmentEmails[a]) : ~recruitmentEmails[a][i].isActive

\* the agencies that a send of some job has succeeded for
DeliveredTo ==
    { task[j][k] : <<j, k>> \in { x \in Calls \X Positions :
                                    x[2] <= JobLen(x[1]) /\ send[x[1]][x[2]] = "fulfilled" } }

\* the delivery-channel calls made for position k of job j
ChannelCalls(j, k) ==
    { i \in 1..Len(delivery[j][k]) : delivery[j][k][i] # "none" }

\* C23: an agency of a job that has no active address is a failure of that
\* agency alone: from the moment its batch is issued its send has failed
\* with no delivery-channel call made, no quota update is ever issued for
\* it and its settings stay as they were; once its batch is processed it
\* is counted among the errors of the batch.
C23_NoActiveAddressFails ==
    \A j \in Calls : \A k \in 1..JobLen(j) :
        (NoActiveAddress(task[j][k]) /\ send[j][k] # "none") =>
            /\ send[j][k] = "rejected"
            /\ ChannelCalls(j, k) = {}
            /\ upd[j][k] = "none"
            /\ company[task[j][k]] = company0[task[j][k]]
            /\ \A b \in Batches :
                  (k \in BatchPositions(JobLen(j), b) /\ batchPc[j][b] = "done") =>
                      LET P == BatchPositions(JobLen(j), b)
                      IN  /\ batchResult[j][b].errors
                                = Cardinality({x \in P : send[j][x] = "rejected"})
                          /\ batchResult[j][b].errors >= 1
                          /\ batchResult[j][b].success
                                = Cardinality({x \in P : send[j][x] = "fulfilled"})

\* in one batch an agency whose two addresses are inactive was counted as
\* the error, next to an agency that was delivered to and counted
C23_Witness ==
    /\ Len(recruitmentEmails[1]) = 2
    /\ NoActiveAddress(1)
    /\ task[1] = <<1, 2>>
    /\ maxBatchSize = 2
    /\ batchPc[1][1] = "done"
    /\ batchResult[1][1] = [success |-> 1, errors |-> 1]
    /\ upd[1][2] = "done"
    /\ psdPc[1] = "done"

\* the active addresses of agency a, by position in recruitmentEmails
ActiveAddresses(a) ==
    { i \in 1..Len(recruitmentEmails[a]) : recruitmentEmails[a][i].isActive }

\* C24: for an agency sent to, the delivery-channel calls made are one per
\* active address and none for an inactive one; the agency has succeeded
\* exactly when every one of these calls has; as soon as one call fails
\* the agency has failed, whatever the other calls do, no quota update is
\* issued for it and, unless another send to it succeeded, its settings
\* stay as they were; a quota update is issued only for an agency that
\* succeeded.
C24_AllAddressesOrNothing ==
    \A j \in Calls : \A k \in 1..JobLen(j) :
        LET a == task[j][k]
            calls == delivery[j][k]
        IN  send[j][k] # "none" =>
               /\ ChannelCalls(j, k) = ActiveAddresses(a)
               /\ Cardinality(ChannelCalls(j, k)) = Len(activeEmails(a))
               /\ (send[j][k] = "fulfilled")
                     <=> (/\ ActiveAddresses(a) # {}
                          /\ \A i \in ActiveAddresses(a) : calls[i] = "fulfilled")
               /\ (\E i \in ChannelCalls(j, k) : calls[i] = "rejected") =>
                     /\ send[j][k] = "rejected"
                     /\ upd[j][k] = "none"
                     /\ a \notin DeliveredTo => company[a] = company0[a]
               /\ upd[j][k] # "none" => send[j][k] = "fulfilled"

\* an agency with two active addresses failed on the second one after the
\* first one was delivered to: it was counted as an error, without a quota
\* update, next to an agency that succeeded
C24_Witness ==
    /\ ActiveAddresses(1) = {1, 2}
    /\ task[1] = <<1, 2>>
    /\ delivery[1][1] = <<"fulfilled", "rejected">>
    /\ send[1][1] = "rejected"
    /\ send[1][2] = "fulfilled"
    /\ psdPc[1] = "done"
    /\ jobResult[1] = [success |-> 1, errors |-> 1]
    /\ upd[1][1] = "none"
    /\ upd[1][2] = "done"

\* the quota updates of agency a at the given stages, as <<job, position>>
UpdatesAt(a, stages) ==
    { x \in Calls \X Positions :
        /\ x[2] <= JobLen(x[1])
        /\ task[x[1]][x[2]] = a
        /\ upd[x[1]][x[2]] \in stages }

RECURSIVE SerialResults(_, _)
\* the settings k increment-or-reset operations applied one after another
\* may leave, from settings doc, each at some time up to now
SerialResults(doc, k) ==
    IF k = 0 THEN {doc}
    ELSE UNION { SerialResults(VirtualReset(doc, t), k - 1) : t \in InitNow..now }

\* C25: overlapping quota updates of one agency leave what as many
\* increment-or-reset operations applied one after another leave.  When two
\* or more updates of an agency are in progress at once, each with only
\* its increment left to apply, the settings these increments lead to are
\* a result of applying one operation per update, finished or in progress,
\* in sequence to the initial settings.
C25_OverlapSerializable ==
    \A a \in Agencies :
        LET inProgress == UpdatesAt(a, {"reset", "inc"})
            finished == UpdatesAt(a, {"done"})
            final == [company[a] EXCEPT
                        !.dailyCount = @ + Cardinality(inProgress)]
        IN  (Cardinality(inProgress) >= 2 /\ inProgress = UpdatesAt(a, {"inc"}))
               => final \in SerialResults(company0[a],
                                          Cardinality(inProgress) + Cardinality(finished))

FailedUpdates == { x \in Calls \X Positions : upd[x[1]][x[2]] = "failed" }

\* C27: a quota update that throws changes nothing but the update itself:
\* the store, the result of the send, the tallies, the queue and the
\* position of every job are left as they are; the send of a failed update
\* stays a success in the tally of its batch and of its job; and the
\* pipeline goes on: whenever the event loop has nothing left to run,
\* every enqueued job is finished with every agency attempted.
C27_QuotaFailureNonFatal ==
    /\ [][ \A j \in Calls : \A k \in Positions :
              (upd[j][k] # "failed" /\ upd'[j][k] = "failed")
                  => /\ send'[j][k] = "fulfilled"
                     /\ UNCHANGED <<now, dbVars, callVars, queueVars, jobVars>> ]_vars
    /\ [](\A x \in FailedUpdates :
              LET j == x[1]
                  k == x[2]
              IN  /\ send[j][k] = "fulfilled"
                  /\ \A b \in Batches :
                        (k \in BatchPositions(JobLen(j), b)) =>
                            /\ batchPc[j][b] = "done"
                            /\ batchResult[j][b].success
                                  = Cardinality(Fulfilled(send[j],
                                                          BatchPositions(JobLen(j), b)))
                  /\ psdPc[j] = "done" =>
                        jobResult[j].success = Cardinality(SendsIn(j, "fulfilled")))
    /\ [](Quiescent => AllJobsDone)

\* the quota update of the first agency of a job of two batches threw; its
\* send was counted, the second agency was sent to and updated, and the job
\* that waited in the queue was processed
C27_Witness ==
    /\ Len(started) >= 2
    /\ JobLen(started[1]) = 2
    /\ maxBatchSize = 1
    /\ upd[started[1]][1] = "failed"
    /\ upd[started[1]][2] = "done"
    /\ jobResult[started[1]] = [success |-> 2, errors |-> 0]
    /\ psdPc[started[2]] = "done"
    /\ Quiescent

\* the entries of the lookup table whose city the text contains
CitiesIn(text) == { i \in 1..Len(regionMap) : includes(text, regionMap[i].city) }

\* the region the claim derives: the token of location when it is one, in
\* any case; otherwise the region of the first table entry contained in
\* the lower-cased address (the city when the address is empty); otherwise
\* center
ClaimedRegion(cand) ==
    LET loc == toLowerCase(cand.location)
        text == toLowerCase(IF cand.address = <<>> THEN cand.city ELSE cand.address)
        hits == CitiesIn(text)
    IN  IF \E i \in 1..Len(RegionTokens) : RegionTokens[i].token = loc
        THEN RegionTokens[CHOOSE i \in 1..Len(RegionTokens) :
                             RegionTokens[i].token = loc].region
        ELSE IF hits # {}
        THEN regionMap[CHOOSE i \in hits : \A h \in hits : i <= h].region
        ELSE "center"

\* C28: the region extractRegionFromCandidate returns is one of north,
\* center, lowlands and south, and it is the one the three ordered steps
\* give: the token of location, whatever the address and the city are,
\* else the first city of the table found in the address (or the city),
\* else center.
C28_RegionDerivation ==
    candidateRegion # "" =>
        /\ candidateRegion \in Regions
        /\ candidateRegion = ClaimedRegion(regionArg)
        /\ \A i \in 1..Len(RegionTokens) :
              toLowerCase(regionArg.location) = RegionTokens[i].token
                  => candidateRegion = RegionTokens[i].region

\* the location is no token and the address names Arad before Haifa, with
\* a city of the lowlands in the city field: the region is the north, that
\* of the first of the two in the table
C28_Witness ==
    /\ candidateRegion = "north"
    /\ TokenRegion(toLowerCase(regionArg.location)) = ""
    /\ regionArg.location # <<>>
    /\ CitiesIn(toLowerCase(regionArg.address)) = {1, 5}
    /\ CitiesIn(toLowerCase(regionArg.city)) = {4}

\* C29: on a non-empty window the failure rate is above its threshold
\* exactly when the success rate is below its own, and the value returned
\* shows it: the two issues are reported together or not at all, a failure
\* rate above the threshold is always reported as critical, and warning
\* is returned only for a slow average with a success rate at or above
\* the threshold.
C29_FailureWarningEscalated ==
    (health.status # "none" /\ WindowTotal > 0) =>
        /\ HighFailureRate <=> LowSuccessRate
        /\ ("High failure rate" \in Range(health.issues))
              <=> ("Low success rate" \in Range(health.issues))
        /\ HighFailureRate => health.status = "critical"
        /\ health.status = "warning" =>
              /\ SlowProcessing
              /\ ~LowSuccessRate
              /\ health.issues = << "Slow processing" >>

\* a failure rate above the threshold with a fast average: critical, with
\* the failure-rate issue and the success-rate issue
C29_Witness ==
    /\ WindowTotal > 0
    /\ HighFailureRate
    /\ ~SlowProcessing
    /\ health.status = "critical"
    /\ health.issues = << "High failure rate", "Low success rate" >>

\* the same document with the enabled flag turned over
OtherEnabled(doc) == [doc EXCEPT !.enabled = ~doc.enabled]

\* the verdict of the claim on one agency: a valid subscription and an
\* effective count below the cap; the region and the approval are settled
\* by the query that returned the agency
EligibleVerdict(doc, t) ==
    ValidSubscription(doc.id, t) /\ EffectiveCount(doc, t) < MaxPerDay(doc)

\* C30: when a call resolves its agencies, an agency returned by the region
\* query is in the resolved list exactly when its subscription is valid and
\* its effective count is below its cap, whatever its enabled flag is, and
\* getEligibleAgencies gives the same list on the documents with the flag
\* of any one of them turned over; the flag does not decide which agencies
\* the region query returns.
C30_EnabledIgnored ==
    /\ [][ \A c \in Calls :
              (callPc[c] = "subscriptionFind" /\ callPc'[c] = "returned")
                  => \A i \in 1..Len(agencies[c]) :
                        LET doc == agencies[c][i]
                            others == [agencies[c] EXCEPT ![i] = OtherEnabled(doc)]
                        IN  /\ (doc.id \in Range(task'[c]))
                                  <=> EligibleVerdict(doc, callNow[c])
                            /\ eligibleAgencies(others, callNow[c])
                                  = eligibleAgencies(agencies[c], callNow[c])
                            /\ distributed'[c]
                                  = Len(eligibleAgencies(others, callNow[c])) ]_vars
    /\ [][ \A c \in Calls :
              (callPc[c] = "companyFind" /\ callPc'[c] = "subscriptionFind")
                  => { agencies'[c][i].id : i \in 1..Len(agencies'[c]) }
                        = { a \in Agencies :
                              /\ extractRegionFromCandidate(candidate[c])
                                    \in AgencyDoc(a).supportRegions
                              /\ Len(recruitmentEmails[a]) > 0 } ]_vars

\* the first agency had distribution turned off from the start to the end;
\* it was resolved first in the job, the CV was sent to it and its count
\* was raised
C30_Witness ==
    /\ ~company0[1].enabled
    /\ ~company[1].enabled
    /\ psdPc[1] = "done"
    /\ task[1] = <<1, 2>>
    /\ send[1][1] = "fulfilled"
    /\ upd[1][1] = "done"

=============================================================================
